---------------------------- MODULE Spec2Model ----------------------------
(***************************************************************************)
(* A model of DataManager (src/data_manager.py): a registry of named CSV   *)
(* datasets with validate / load / merge / replace / save / delete /       *)
(* summary operations, an audit log and timestamped backups.               *)
(*                                                                         *)
(* A DataFrame is [columns |-> sequence of column names,                   *)
(*                 rows    |-> sequence of rows],                          *)
(* a row being a function from the frame's column names to cells.  A cell  *)
(* is <<kind, text, number>>: a text, an integer, a float of integral      *)
(* value, or NaN.  A CSV file holds the fields as text: to_csv formats the *)
(* cells, read_csv infers the type of each column from its fields.         *)
(***************************************************************************)
EXTENDS Naturals, Integers, Sequences, FiniteSets, TLC

VARIABLES
    fs,             \* the working directory: path -> file
    clock,          \* datetime.now(), in whole seconds
    log,            \* the logging sink data_operations.log
    session_state,  \* st.session_state of each session
    held,           \* the DataFrame each caller holds, and the call it came from
    call,           \* arguments of the latest call of each session
    ret,            \* what the latest call of each session returned
    nops,           \* number of calls made so far
    pc,             \* the statement each session is at inside its call
    local           \* the local variables of the call of each session

vars == <<fs, clock, log, session_state, held, call, ret, nops, pc, local>>

---------------------------------------------------------------------------
(* Bounds of the model *)

\* uploaded cells: row kinds 0..MaxRowId
MaxRowId == 2
\* rows of a table drawn as an input of merge_data
MergeMaxRows == 2
\* calls of merge, replace, save and delete made in one run
MaxOps == 2
\* the clock runs from 0 to MaxClock seconds
MaxClock == 1
\* schema columns that an upload drawn as an input of validate may lack
MaxMissing == 2

---------------------------------------------------------------------------
(* Sequences *)

Range(s) == {s[i] : i \in 1..Len(s)}

IsPrefix(s, t) == Len(s) <= Len(t) /\ SubSeq(t, 1, Len(s)) = s

RECURSIVE IndexOf(_, _)
\* the position of c in cols
IndexOf(cols, c) == IF Head(cols) = c THEN 1 ELSE 1 + IndexOf(Tail(cols), c)

RECURSIVE TotalLen(_)
\* the number of characters of the texts of a sequence
TotalLen(texts) == IF texts = <<>> THEN 0 ELSE Len(Head(texts)) + TotalLen(Tail(texts))

---------------------------------------------------------------------------
(* The registry: DataManager.__init__ *)

data_files ==
    [t \in {"AI Tutor", "AI Mentor", "AI Impact", "JPT Data", "Unit Performance"} |->
        CASE t = "AI Tutor"         -> "ai_tutor_mock_data.csv"
          [] t = "AI Mentor"        -> "ai_mentor_mock_data.csv"
          [] t = "AI Impact"        -> "ai_impact_mock_data.csv"
          [] t = "JPT Data"         -> "jpt_mock_data.csv"
          [] t = "Unit Performance" -> "unit_performance_mock_data.csv"]

\* the order in which a Python dict iterates: insertion order
data_files_order ==
    <<"AI Tutor", "AI Mentor", "AI Impact", "JPT Data", "Unit Performance">>

templates ==
    [t \in {"AI Tutor", "AI Mentor", "AI Impact", "JPT Data", "Unit Performance"} |->
        CASE t = "AI Tutor" ->
               [filename |-> "ai_tutor_template.csv",
                columns  |-> <<"Campus", "Course_Name", "Cohort", "Unit_Name", "Faculty", "Email_ID",
                          "Unit_Commencement_date", "No_of_Session_IDs_created", "Total_Students_Participated",
                          "Batch_size", "Student_adoption_rate", "End_Date", "No_of_students_who_filled_form",
                          "Size_of_batch_when_feedback_taken", "Faculty_Avg_Score", "AI_Tutor_quality_score",
                          "AI_Tutor_impact_score", "Avg_Rating_for_AI_Tutor_Tool", "Implemented_AI_Tutor",
                          "Features_found_useful", "Used_Document_Creator", "Quizzes_conducted",
                          "Quizzes_used_for_grading", "Quiz_outcome", "Faculty_Feedback">>]
          [] t = "AI Mentor" ->
               [filename |-> "ai_mentor_template.csv",
                columns  |-> <<"Academic_Manager_Name", "Program", "Cohort", "Term", "Q1_Improvement_observed",
                          "Q2_Students_motivated", "Q3_Effectiveness", "Q4_Key_observations">>]
          [] t = "AI Impact" ->
               [filename |-> "ai_impact_template.csv",
                columns  |-> <<"Student_Name", "Student_mail_id", "Program", "Cohort", "Term",
                          "Placed_Not_Placed", "CGPA", "AI_Tutor_Usage", "AI_Mentor_Usage",
                          "AI_TKT_Exam_Usage", "JPT_Usage", "Yoodli_Usage">>]
          [] t = "JPT Data" ->
               [filename |-> "jpt_template.csv",
                columns  |-> <<"Year", "Program", "Cohort", "Company", "Industry_Sector", "Company_Tier",
                          "Job_role", "Location", "Students_Eligible", "Applied_Y_N", "Students_Interviewed",
                          "Vacancies_Offered", "Students_Selected", "Avg_CTC", "Highest_CTC">>]
          [] t = "Unit Performance" ->
               [filename |-> "unit_performance_template.csv",
                columns  |-> <<"Unit_Name", "CP", "IA", "GA", "TE", "Total_score", "Year", "Program", "Cohort">>]]

\* self.templates[data_type]['columns']
expected_columns_of(data_type) == templates[data_type].columns

---------------------------------------------------------------------------
(* pandas: cells and frames *)

\* a text
Str(text) == <<"str", text, 0>>
\* an integer (int64, or a Python int in an object column)
Int64(n) == <<"int", "", n>>
\* a float of integral value n
Float64(n) == <<"float", "", n>>

NaN == <<"nan", "", 0>>

\* the kind, the text and the number of a cell
Kind(cell) == cell[1]
Text(cell) == cell[2]
Num(cell) == cell[3]

IsNumber(cell) == Kind(cell) \in {"int", "float"}

\* equality of two cells for drop_duplicates: 7 equals 7.0, NaN equals NaN
SameCell(a, b) == IF IsNumber(a) /\ IsNumber(b) THEN Num(a) = Num(b) ELSE a = b

SameRow(r, q) == DOMAIN r = DOMAIN q /\ \A c \in DOMAIN r : SameCell(r[c], q[c])

\* pd.DataFrame()
EmptyFrame == [columns |-> <<>>, rows |-> <<>>]

\* df.empty: no rows or no columns
IsEmpty(frame) == Len(frame.rows) = 0 \/ Len(frame.columns) = 0

\* df[cols] raises KeyError when a name of cols is no column of df
RaisesKeyError(frame, cols) == \E i \in 1..Len(cols) : cols[i] \notin Range(frame.columns)

\* df[cols]: the columns cols, in the order of cols
Select(frame, cols) ==
    [columns |-> cols,
     rows    |-> [i \in 1..Len(frame.rows) |->
                    [c \in Range(cols) |-> frame.rows[i][c]]]]

RECURSIVE NotIn(_, _)
\* the names of cols that are not in seen, in the order of cols
NotIn(cols, seen) ==
    IF cols = <<>> THEN <<>>
    ELSE IF Head(cols) \in seen THEN NotIn(Tail(cols), seen)
         ELSE <<Head(cols)>> \o NotIn(Tail(cols), seen)

\* the cell of row i in column c of a frame; NaN where the frame has no such column
CellOf(frame, i, c) == IF c \in Range(frame.columns) THEN frame.rows[i][c] ELSE NaN

\* the cells of column c of a frame
ColumnOf(frame, c) == [i \in 1..Len(frame.rows) |-> CellOf(frame, i, c)]

\* the dtype of a column of these cells
Dtype(cells) ==
    IF cells = <<>> THEN "empty"
    ELSE IF \A i \in 1..Len(cells) : Kind(cells[i]) = "int" THEN "int64"
    ELSE IF \A i \in 1..Len(cells) : Kind(cells[i]) \in {"float", "nan"} THEN "float64"
    ELSE "object"

\* a column joined from parts of these dtypes is float64: int64 with float64;
\* anything with object is object and keeps its cells
IsFloat64(dtypes) == "float64" \in dtypes /\ "object" \notin dtypes

\* a cell of a joined column: an integer of a float64 column becomes a float
Upcast(cell, float64) == IF float64 /\ Kind(cell) = "int" THEN Float64(Num(cell)) ELSE cell

\* pd.concat([a, b], ignore_index=True): the union of the columns, a's
\* first; a column that a frame lacks is NaN in the rows of that frame
Concat(a, b) ==
    LET cols    == a.columns \o NotIn(b.columns, Range(a.columns))
        float64 == {c \in Range(cols) :
                       IsFloat64({Dtype(ColumnOf(a, c)), Dtype(ColumnOf(b, c))})}
        rows(frame) ==
            [i \in 1..Len(frame.rows) |->
                [c \in Range(cols) |-> Upcast(CellOf(frame, i, c), c \in float64)]]
    IN  [columns |-> cols, rows |-> rows(a) \o rows(b)]

RECURSIVE KeepFirst(_, _)
\* the rows of rest that equal neither a row of kept nor an earlier row of rest
KeepFirst(kept, rest) ==
    IF rest = <<>> THEN kept
    ELSE IF \E i \in 1..Len(kept) : SameRow(kept[i], Head(rest))
         THEN KeepFirst(kept, Tail(rest))
         ELSE KeepFirst(Append(kept, Head(rest)), Tail(rest))

RECURSIVE KeepLast(_)
\* the rows of rows that equal no later row
KeepLast(rows) ==
    IF rows = <<>> THEN <<>>
    ELSE IF \E i \in 2..Len(rows) : SameRow(rows[i], Head(rows))
         THEN KeepLast(Tail(rows))
         ELSE <<Head(rows)>> \o KeepLast(Tail(rows))

\* drop_duplicates(keep='last')
DropDuplicatesKeepLast(frame) == [frame EXCEPT !.rows = KeepLast(frame.rows)]

\* df.drop_duplicates(): keep='first'
DropDuplicates(frame) == [frame EXCEPT !.rows = KeepFirst(<<>>, frame.rows)]

---------------------------------------------------------------------------
(* pandas: CSV files *)

\* the bytes of a file: a CSV text of a header and rows of fields, or bytes
\* that are no text
Csv(columns, rows) == [form |-> "csv", columns |-> columns, rows |-> rows]

Garbage == [form |-> "garbage", columns |-> <<>>, rows |-> <<>>]

\* the field to_csv writes for a cell: NaN is the empty field
FormatCell(cell) ==
    CASE Kind(cell) = "str"   -> Text(cell)
      [] Kind(cell) = "int"   -> ToString(Num(cell))
      [] Kind(cell) = "float" -> ToString(Num(cell)) \o ".0"
      [] Kind(cell) = "nan"   -> ""

\* df.to_csv(index=False): the text of the file
ToCsv(frame) ==
    Csv(frame.columns,
        [i \in 1..Len(frame.rows) |->
            [c \in Range(frame.columns) |-> FormatCell(frame.rows[i][c])]])

\* read_csv's default na_values: such a field is read as NaN
na_values ==
    {"", "#N/A", "#N/A N/A", "#NA", "-1.#IND", "-1.#QNAN", "-NaN", "-nan",
     "1.#IND", "1.#QNAN", "<NA>", "N/A", "NA", "NULL", "NaN", "None",
     "n/a", "nan", "null"}

\* the fields read_csv parses as integers, as floats; the model knows these
\* numerals, every other field that is no NA marker is a text
IntegerNumerals ==
    [field \in {"0", "1", "2", "7", "007"} |->
        CASE field = "0" -> 0 [] field = "1" -> 1 [] field = "2" -> 2
          [] field = "7" -> 7 [] field = "007" -> 7]

FloatNumerals ==
    [field \in {"0.0", "1.0", "2.0", "7.0"} |->
        CASE field = "0.0" -> 0 [] field = "1.0" -> 1 [] field = "2.0" -> 2
          [] field = "7.0" -> 7]

NumberOf(field) ==
    IF field \in DOMAIN IntegerNumerals THEN IntegerNumerals[field] ELSE FloatNumerals[field]

\* the dtype read_csv infers for a column from its fields: int64 when every
\* field is an integer, float64 when every field is a number or NA, else object
InferDtype(fields) ==
    LET present == {i \in 1..Len(fields) : fields[i] \notin na_values}
    IN  IF fields = <<>> THEN "object"
        ELSE IF present = {} THEN "float64"
        ELSE IF \A i \in present : fields[i] \in DOMAIN IntegerNumerals
             THEN (IF Cardinality(present) = Len(fields) THEN "int64" ELSE "float64")
        ELSE IF \A i \in present :
                   fields[i] \in DOMAIN IntegerNumerals \cup DOMAIN FloatNumerals
             THEN "float64"
        ELSE "object"

\* the cell read_csv makes of a field in a column of this dtype
ParseCell(field, dtype) ==
    IF field \in na_values THEN NaN
    ELSE CASE dtype = "int64"   -> Int64(NumberOf(field))
           [] dtype = "float64" -> Float64(NumberOf(field))
           [] OTHER             -> Str(field)

\* pd.read_csv raises on bytes it cannot decode and on a file without a
\* header line, which is what to_csv writes for pd.DataFrame()
ReadCsvRaises(text) == text.form # "csv" \/ text.columns = <<>>

\* str(e) of what pd.read_csv raises
ReadCsvError(text) ==
    IF text.form # "csv"
    THEN "'utf-8' codec can't decode byte 0xff in position 0: invalid start byte"
    ELSE "No columns to parse from file"

ReadCsv(text) ==
    LET dtype == [c \in Range(text.columns) |->
                    InferDtype([i \in 1..Len(text.rows) |-> text.rows[i][c]])]
    IN  [columns |-> text.columns,
         rows    |-> [i \in 1..Len(text.rows) |->
                        [c \in Range(text.columns) |-> ParseCell(text.rows[i][c], dtype[c])]]]

\* the characters of one line: the fields, the commas, the line end; to_csv
\* writes a lone empty field as ""
LineSize(fields) ==
    IF fields = <<"">> THEN 3 ELSE TotalLen(fields) + Len(fields)

RECURSIVE RowsSize(_, _)
RowsSize(columns, rows) ==
    IF rows = <<>> THEN 0
    ELSE LineSize([j \in 1..Len(columns) |-> Head(rows)[columns[j]]])
         + RowsSize(columns, Tail(rows))

\* os.path.getsize: the bytes of the text; pd.DataFrame() is written as one
\* line end, the bytes that are no text are the one byte 0xff
CsvSize(text) ==
    IF text.form # "csv" THEN 1
    ELSE IF text.columns = <<>> THEN 1
    ELSE LineSize(text.columns) + RowsSize(text.columns, text.rows)

\* f"{size / 1024:.1f} KB": tenths of a KB, a tie rounded to the even digit
FormatSize(size) ==
    LET q      == (size * 10) \div 1024
        r      == (size * 10) % 1024
        tenths == IF r > 512 \/ (r = 512 /\ q % 2 = 1) THEN q + 1 ELSE q
    IN  ToString(tenths \div 10) \o "." \o ToString(tenths % 10) \o " KB"

---------------------------------------------------------------------------
(* The file system *)

NoFile == [exists |-> FALSE, text |-> Garbage, mtime |-> 0]

File(text, now) == [exists |-> TRUE, text |-> text, mtime |-> now]

\* the path of a registered file, and f"{filename}.backup_{timestamp}"
LivePath(filename) == <<filename>>
BackupPath(filename, timestamp) == <<filename, timestamp>>

BackupPaths == {BackupPath(data_files[t], ts) : t \in DOMAIN data_files, ts \in 0..MaxClock}

\* a directory is a function from the paths of its files; FileAt is total
FileAt(files, path) == IF path \in DOMAIN files THEN files[path] ELSE NoFile

\* os.path.exists
Exists(files, path) == path \in DOMAIN files

\* open(path, 'w') and write
Write(files, path, text, now) ==
    [p \in DOMAIN files \cup {path} |-> IF p = path THEN File(text, now) ELSE files[p]]

---------------------------------------------------------------------------
(* Inputs *)

\* the cell of column number j in a row of kind id: texts in the first two
\* columns, an integer in the third, a text in the others
Cell(id, j) ==
    IF j = 1 THEN (IF id % 2 = 1 THEN Str("b") ELSE Str("a"))
    ELSE IF j = 2 THEN (IF (id \div 2) % 2 = 1 THEN Str("b") ELSE Str("a"))
    ELSE IF j = 3 THEN Int64(7)
    ELSE Str("a")

\* the cell of a column outside the schema
ForeignCell(c) == IF c = "Legacy" THEN Int64(1) ELSE Str("x")

\* a frame with the columns cols; the row kinds ids, numbered as in schema
Frame(cols, schema, ids) ==
    [columns |-> cols,
     rows    |-> [i \in 1..Len(ids) |->
                    [c \in Range(cols) |->
                        IF c \in Range(schema) THEN Cell(ids[i], IndexOf(schema, c))
                        ELSE ForeignCell(c)]]]

Reverse(s) == [i \in 1..Len(s) |-> s[Len(s) + 1 - i]]

\* column layouts of an upload: the schema, the schema reversed behind an
\* extra column, the schema without its last column
WithExtra(schema) == <<"Extra">> \o Reverse(schema)
WithoutLast(schema) == SubSeq(schema, 1, Len(schema) - 1)

---------------------------------------------------------------------------
(* DataManager *)

\* one call of log_operation, before the timestamps are taken
LogCall(operation, data_type, user_info, details) ==
    [operation |-> operation, data_type |-> data_type,
     user |-> user_info, details |-> details]

\* the entry of a call of log_operation stamped at time now
LogEntry(c, now) ==
    [timestamp |-> now, operation |-> c.operation, data_type |-> c.data_type,
     user |-> c.user, details |-> c.details]

NoSessionLogs == [has_logs |-> FALSE, operation_logs |-> <<>>]

\* line 65: logging.info appends the line of the call, stamped now
log_file_after(lines, c, now) == Append(lines, LogEntry(c, now))

\* lines 68-77 with the session list created anew on every call
session_after_resets(st, c, now) ==
    [has_logs |-> TRUE, operation_logs |-> <<LogEntry(c, now)>>]

\* lines 68-77: the session list is created when absent, then appended to
session_after(st, c, now) ==
    [has_logs |-> TRUE,
     operation_logs |-> Append(IF st.has_logs THEN st.operation_logs ELSE <<>>,
                               LogEntry(c, now))]

None == [is_none |-> TRUE]

create_template(data_type) ==
    IF data_type \in DOMAIN templates
    THEN [columns |-> expected_columns_of(data_type), rows |-> <<>>]
    ELSE None

\* what validate_uploaded_data returns for a type without template
InvalidDataType ==
    [ok |-> FALSE, message |-> "Invalid data type", names |-> {}, warning |-> {}]

\* validate_uploaded_data that accepts only the schema's own columns
validate_uploaded_data_strict(uploaded_df, data_type) ==
    IF data_type \notin DOMAIN templates
    THEN InvalidDataType
    ELSE LET expected_columns == Range(expected_columns_of(data_type))
             uploaded_columns == Range(uploaded_df.columns)
         IN  IF expected_columns # uploaded_columns
             THEN [ok |-> FALSE, message |-> "Missing columns: ",
                   names |-> expected_columns \ uploaded_columns, warning |-> {}]
             ELSE [ok |-> TRUE, message |-> "Valid data structure",
                   names |-> {}, warning |-> {}]

\* names: the columns the message joins; warning: the columns st.warning joins
validate_uploaded_data(uploaded_df, data_type) ==
    IF data_type \notin DOMAIN templates
    THEN InvalidDataType
    ELSE LET expected_columns == Range(expected_columns_of(data_type))
             uploaded_columns == Range(uploaded_df.columns)
             missing_columns  == expected_columns \ uploaded_columns
             extra_columns    == uploaded_columns \ expected_columns
         IN  IF missing_columns # {}
             THEN [ok |-> FALSE, message |-> "Missing columns: ",
                   names |-> missing_columns, warning |-> {}]
             ELSE [ok |-> TRUE, message |-> "Valid data structure",
                   names |-> {}, warning |-> extra_columns]

\* what load_existing_data returns when there is no file
NothingLoaded == [df |-> [columns |-> <<>>, rows |-> <<>>], error |-> FALSE, shown |-> ""]

\* error: st.error is shown, with str(e)
load_existing_data(files, data_type) ==
    IF data_type \in DOMAIN data_files /\ Exists(files, LivePath(data_files[data_type]))
    THEN LET text == FileAt(files, LivePath(data_files[data_type])).text
         IN  IF ReadCsvRaises(text)
             THEN [df |-> EmptyFrame, error |-> TRUE, shown |-> ReadCsvError(text)]
             ELSE [df |-> ReadCsv(text), error |-> FALSE, shown |-> ""]
    ELSE NothingLoaded

\* the exception e of an except branch: its class and what str(e) names
NoError == [raised |-> "", about |-> {}]

\* self.templates[data_type] of an unknown type, df[cols] of missing columns
KeyError(names) == [raised |-> "KeyError", about |-> names]

\* the names of cols that frame lacks
Missing(frame, cols) == {cols[i] : i \in 1..Len(cols)} \ Range(frame.columns)

\* merge_data with the audit entry written before the columns are selected
merge_data_logs_first(existing_df, new_df, data_type, user_info) ==
    LET entry == LogCall("MERGE", data_type, user_info,
                         [added |-> Len(new_df.rows),
                          total |-> Len(existing_df.rows) + Len(new_df.rows)])
    IN  IF data_type \notin DOMAIN templates
        THEN [df |-> existing_df, ok |-> FALSE, message |-> "Error merging data: ",
              error |-> KeyError({data_type}), logged |-> <<entry>>]
        ELSE IF RaisesKeyError(new_df, expected_columns_of(data_type))
        THEN [df |-> existing_df, ok |-> FALSE, message |-> "Error merging data: ",
              error |-> KeyError(Missing(new_df, expected_columns_of(data_type))),
              logged |-> <<entry>>]
        ELSE LET new_df_filtered == Select(new_df, expected_columns_of(data_type))
                 concatenated    == IF IsEmpty(existing_df) THEN new_df_filtered
                                    ELSE Concat(existing_df, new_df_filtered)
             IN  [df |-> DropDuplicates(concatenated), ok |-> TRUE,
                  message |-> "Data merged successfully", error |-> NoError,
                  logged |-> <<entry>>]

merge_data(existing_df, new_df, data_type, user_info) ==
    IF data_type \notin DOMAIN templates
    THEN [df |-> existing_df, ok |-> FALSE, message |-> "Error merging data: ",
          error |-> KeyError({data_type}), logged |-> <<>>]
    ELSE IF RaisesKeyError(new_df, expected_columns_of(data_type))
    THEN [df |-> existing_df, ok |-> FALSE, message |-> "Error merging data: ",
          error |-> KeyError(Missing(new_df, expected_columns_of(data_type))),
          logged |-> <<>>]
    ELSE LET new_df_filtered == Select(new_df, expected_columns_of(data_type))
             concatenated    == IF IsEmpty(existing_df) THEN new_df_filtered
                                ELSE Concat(existing_df, new_df_filtered)
             merged_df       == DropDuplicates(concatenated)
         IN  [df |-> merged_df, ok |-> TRUE, message |-> "Data merged successfully",
              error |-> NoError,
              logged |-> <<LogCall("MERGE", data_type, user_info,
                                   [added |-> Len(new_df_filtered.rows),
                                    total |-> Len(merged_df.rows)])>>]

replace_data(new_df, data_type, user_info) ==
    IF data_type \notin DOMAIN templates
    THEN [df |-> EmptyFrame, ok |-> FALSE, message |-> "Error replacing data: ",
          error |-> KeyError({data_type}), logged |-> <<>>]
    ELSE IF RaisesKeyError(new_df, expected_columns_of(data_type))
    THEN [df |-> EmptyFrame, ok |-> FALSE, message |-> "Error replacing data: ",
          error |-> KeyError(Missing(new_df, expected_columns_of(data_type))),
          logged |-> <<>>]
    ELSE LET new_df_filtered == Select(new_df, expected_columns_of(data_type))
         IN  [df |-> new_df_filtered, ok |-> TRUE, message |-> "Data replaced successfully",
              error |-> NoError,
              logged |-> <<LogCall("REPLACE", data_type, user_info,
                                   [replaced |-> Len(new_df_filtered.rows)])>>]

\* the name of a path as a text
PathText(path) ==
    IF Len(path) = 1 THEN path[1] ELSE path[1] \o ".backup_" \o ToString(path[2])

\* to_csv cannot open the file at path
OSError(path) == [raised |-> "OSError", about |-> {PathText(path)}]

\* write_fails: df.to_csv raises, the file left as it was
save_data(files, now, frame, data_type, write_fails) ==
    IF data_type \in DOMAIN data_files
    THEN IF write_fails
         THEN [files |-> files, ok |-> FALSE, message |-> "Error saving data: ",
               error |-> OSError(LivePath(data_files[data_type]))]
         ELSE [files |-> Write(files, LivePath(data_files[data_type]), ToCsv(frame), now),
               ok |-> TRUE, message |-> "Data saved successfully", error |-> NoError]
    ELSE [files |-> files, ok |-> FALSE, message |-> "Invalid data type", error |-> NoError]

\* the statements of delete_data, in the order in which they run after the
\* file is found and the backup named
DeleteOrderEmptiesFirst == <<"read", "empty", "backup", "log", "entry">>

DeleteOrder == <<"read", "backup", "empty", "log", "entry">>

\* the statement that follows step; "idle" when the call returns
StepAfter(step) ==
    IF IndexOf(DeleteOrder, step) = Len(DeleteOrder) THEN "idle"
    ELSE DeleteOrder[IndexOf(DeleteOrder, step) + 1]

DeleteFinds(files, data_type) ==
    data_type \in DOMAIN data_files /\ Exists(files, LivePath(data_files[data_type]))

\* the backup written from the live file as it is when the backup is written
BackupWrittenFromDisk(files, filename, backup_filename, frame, now) ==
    Write(files, backup_filename, ToCsv(ReadCsv(FileAt(files, LivePath(filename)).text)), now)

BackupWritten(files, filename, backup_filename, frame, now) ==
    Write(files, backup_filename, ToCsv(frame), now)

LiveEmptied(files, data_type, now) ==
    Write(files, LivePath(data_files[data_type]), ToCsv(create_template(data_type)), now)

DeleteLogCall(data_type, user_info, backup_filename) ==
    LogCall("DELETE", data_type, user_info, [backup |-> backup_filename])

\* the entry of a type that has no file
FileNotFound == [records |-> 0, status |-> "File not found"]

\* one entry of the summary
SummaryEntry(files, filename) ==
    IF Exists(files, LivePath(filename))
    THEN LET f == FileAt(files, LivePath(filename))
         IN  IF ReadCsvRaises(f.text) THEN [error |-> ReadCsvError(f.text)]
             ELSE [records       |-> Len(ReadCsv(f.text).rows),
                   last_modified |-> f.mtime,
                   file_size     |-> FormatSize(CsvSize(f.text))]
    ELSE FileNotFound

RECURSIVE SummaryLoopOneTry(_, _, _)
\* the loop inside one try: the first file that cannot be read ends it
SummaryLoopOneTry(files, types, summary) ==
    IF types = <<>> THEN summary
    ELSE LET entry == SummaryEntry(files, data_files[Head(types)])
         IN  IF DOMAIN entry = {"error"} THEN summary @@ (Head(types) :> entry)
             ELSE SummaryLoopOneTry(files, Tail(types), summary @@ (Head(types) :> entry))

RECURSIVE SummaryLoop(_, _, _)
\* the loop over self.data_files.items()
SummaryLoop(files, types, summary) ==
    IF types = <<>> THEN summary
    ELSE SummaryLoop(files, Tail(types),
                     summary @@ (Head(types) :> SummaryEntry(files, data_files[Head(types)])))

get_data_summary(files) == SummaryLoop(files, data_files_order, <<>>)

---------------------------------------------------------------------------
(* The callers *)

Sessions == {1, 2}
Main == 1

UserOf(s) == IF s = Main THEN "admin" ELSE "guest"

\* the dataset types the callers work on
OpTypes == {"AI Mentor", "Unit Performance"}

\* the tables a caller uploads for a type: one with every schema column
\* (and one more), one that lacks a schema column
Uploads ==
    [t \in OpTypes |->
        {Frame(WithExtra(expected_columns_of(t)), expected_columns_of(t), <<1, 2, 1>>),
         Frame(WithoutLast(expected_columns_of(t)), expected_columns_of(t), <<1>>)}]

\* the text of a file of two rows (the kinds 0 and 1): the integers are
\* written with leading zeros, the last field of the last row reads NA
StoredText(cols, schema) ==
    LET written == ToCsv(Frame(cols, schema, <<0, 1>>))
    IN  Csv(cols,
            [i \in 1..2 |->
                [c \in Range(cols) |->
                    IF i = 2 /\ c = cols[Len(cols)] THEN "NA"
                    ELSE IF written.rows[i][c] = "7" THEN "007"
                    ELSE written.rows[i][c]]])

\* what the working directory may hold for a type when the manager starts:
\* nothing, bytes that are no CSV, a file of the schema's columns, a file
\* with one column more
InitialKinds == {"absent", "garbage", "stored", "legacy"}

InitialFile(t, kind) ==
    CASE kind = "absent"  -> NoFile
      [] kind = "garbage" -> File(Garbage, 0)
      [] kind = "stored"  ->
           File(StoredText(expected_columns_of(t), expected_columns_of(t)), 0)
      [] kind = "legacy"  ->
           File(StoredText(Append(expected_columns_of(t), "Legacy"), expected_columns_of(t)), 0)

\* the directory in which each type t of kinds has the file kinds[t]
Directory(kinds) ==
    [p \in {LivePath(data_files[t]) : t \in {u \in DOMAIN kinds : kinds[u] # "absent"}} |->
        LET t == CHOOSE t \in DOMAIN kinds : p = LivePath(data_files[t])
        IN  InitialFile(t, kinds[t])]

NoCall == [op |-> "none", n |-> 0]

\* the caller has nothing yet
NothingHeld == [df |-> EmptyFrame, from |-> "none", data_type |-> "", ok |-> TRUE]

\* the type a table was made for: the type of the call it came from, "mixed"
\* when it was merged into a table made for another type
MadeFor(s, t) == IF held[s].data_type \in {"", t} THEN t ELSE "mixed"

Idle(s) == pc[s] = "idle"

\* a call that changes a table, a file or the log is counted
Counted == nops < MaxOps /\ nops' = nops + 1

Returned(s, c, r) ==
    /\ call' = [call EXCEPT ![s] = c]
    /\ ret' = [ret EXCEPT ![s] = r]

\* the call has not returned yet
Running == [op |-> "running"]

NoLocal ==
    [data_type |-> "", backup_filename |-> <<>>, df |-> EmptyFrame, done |-> <<>>,
     logging |-> <<>>, returns |-> Running, keeps |-> NothingHeld]

\* the end of merge_data and replace_data: without a call of log_operation
\* the call returns at once; with one, logging.info (line 65) writes the
\* line and the call goes on to lines 68-77.  returns: what the call
\* returns; keeps: the table the caller holds once it has returned
Finishes(s, logged, returns, keeps) ==
    IF logged = <<>>
    THEN /\ ret' = [ret EXCEPT ![s] = returns]
         /\ held' = [held EXCEPT ![s] = keeps]
         /\ UNCHANGED <<log, pc, local>>
    ELSE /\ log' = log_file_after(log, logged[1], clock)
         /\ pc' = [pc EXCEPT ![s] = "entry"]
         /\ local' = [local EXCEPT ![s] = [NoLocal EXCEPT !.logging = logged,
                                                          !.returns = returns,
                                                          !.keeps = keeps]]
         /\ ret' = [ret EXCEPT ![s] = Running]
         /\ UNCHANGED held

Load(s, t) ==
    /\ Idle(s)
    /\ \E r \in {load_existing_data(fs, t)} :
           held' = [held EXCEPT ![s] = [df |-> r.df, from |-> "load", data_type |-> t,
                                        ok |-> ~r.error]]
    /\ UNCHANGED <<fs, clock, log, session_state, call, ret, nops, pc, local>>

Merge(s, t, new_df) ==
    /\ Idle(s)
    /\ Counted
    /\ call' = [call EXCEPT ![s] = [op |-> "merge", n |-> nops + 1, data_type |-> t,
                                    user_info |-> UserOf(s), existing_df |-> held[s].df,
                                    existing_for |-> held[s].data_type, new_df |-> new_df]]
    /\ \E r \in {merge_data(held[s].df, new_df, t, UserOf(s))} :
           Finishes(s, r.logged,
                    [op |-> "merge", df |-> r.df, ok |-> r.ok, message |-> r.message,
                     error |-> r.error],
                    [df |-> r.df, from |-> "merge", data_type |-> MadeFor(s, t),
                     ok |-> r.ok])
    /\ UNCHANGED <<fs, clock, session_state>>

Replace(s, t, new_df) ==
    /\ Idle(s)
    /\ Counted
    /\ call' = [call EXCEPT ![s] = [op |-> "replace", n |-> nops + 1, data_type |-> t,
                                    user_info |-> UserOf(s), new_df |-> new_df]]
    /\ \E r \in {replace_data(new_df, t, UserOf(s))} :
           Finishes(s, r.logged,
                    [op |-> "replace", df |-> r.df, ok |-> r.ok, message |-> r.message,
                     error |-> r.error],
                    [df |-> r.df, from |-> "replace", data_type |-> t, ok |-> r.ok])
    /\ UNCHANGED <<fs, clock, session_state>>

\* the sessions that are between the read and the overwrite of a delete of t
Deleting(t) ==
    {d \in Sessions : pc[d] \in {"backup", "empty"} /\ local[d].data_type = t}

Save(s, t, write_fails) ==
    /\ Idle(s)
    /\ Counted
    /\ \E r \in {save_data(fs, clock, held[s].df, t, write_fails)} :
           /\ fs' = r.files
           /\ Returned(s, [op |-> "save", n |-> nops + 1, data_type |-> t,
                           df |-> held[s].df, from |-> held[s].from,
                           from_ok |-> held[s].ok, made_for |-> held[s].data_type,
                           during |-> Deleting(t)],
                          [op |-> "save", ok |-> r.ok, message |-> r.message,
                           error |-> r.error])
    /\ UNCHANGED <<clock, log, session_state, held, pc, local>>

\* delete_data returns from its except branch
DeleteRaises(s, error) ==
    /\ ret' = [ret EXCEPT ![s] = [op |-> "delete", ok |-> FALSE,
                                  message |-> "Error deleting data: ", error |-> error]]
    /\ pc' = [pc EXCEPT ![s] = "idle"]

\* delete_data goes on to its next statement
DeleteGoesOn(s, step) ==
    /\ pc' = [pc EXCEPT ![s] = StepAfter(step)]
    /\ UNCHANGED ret

\* what delete_data returns when there is no file
DataFileNotFound ==
    [op |-> "delete", ok |-> FALSE, message |-> "Data file not found",
     error |-> [raised |-> "", about |-> {}]]

\* lines 191-194: the file is looked up and the backup named
DeleteBegin(s, t) ==
    /\ Idle(s)
    /\ Counted
    /\ call' = [call EXCEPT ![s] = [op |-> "delete", n |-> nops + 1, data_type |-> t,
                                    user_info |-> UserOf(s)]]
    /\ IF ~DeleteFinds(fs, t)
       THEN /\ ret' = [ret EXCEPT ![s] = DataFileNotFound]
            /\ UNCHANGED <<pc, local>>
       ELSE /\ ret' = [ret EXCEPT ![s] = Running]
            /\ pc' = [pc EXCEPT ![s] = DeleteOrder[1]]
            /\ local' = [local EXCEPT ![s] =
                           [NoLocal EXCEPT !.data_type = t,
                                           !.backup_filename =
                                               BackupPath(data_files[t], clock)]]
    /\ UNCHANGED <<fs, clock, log, session_state, held>>

\* line 195
DeleteRead(s) ==
    /\ pc[s] = "read"
    /\ \E text \in {FileAt(fs, LivePath(data_files[local[s].data_type])).text} :
           IF ReadCsvRaises(text)
           THEN /\ DeleteRaises(s, [raised |-> "read_csv", about |-> {ReadCsvError(text)}])
                /\ UNCHANGED local
           ELSE /\ DeleteGoesOn(s, "read")
                /\ local' = [local EXCEPT ![s].df = ReadCsv(text),
                                          ![s].done = Append(@, "read")]
    /\ UNCHANGED <<fs, clock, log, session_state, held, call, nops>>

\* line 196; fails: to_csv raises, the file left as it was
DeleteBackup(s, fails) ==
    /\ pc[s] = "backup"
    /\ IF fails
       THEN /\ DeleteRaises(s, OSError(local[s].backup_filename))
            /\ UNCHANGED <<fs, local>>
       ELSE /\ DeleteGoesOn(s, "backup")
            /\ fs' = BackupWritten(fs, data_files[local[s].data_type],
                                   local[s].backup_filename, local[s].df, clock)
            /\ local' = [local EXCEPT ![s].done = Append(@, "backup")]
    /\ UNCHANGED <<clock, log, session_state, held, call, nops>>

\* lines 199-200; fails: to_csv raises, the file left as it was
DeleteEmpty(s, fails) ==
    /\ pc[s] = "empty"
    /\ IF fails
       THEN /\ DeleteRaises(s, OSError(LivePath(data_files[local[s].data_type])))
            /\ UNCHANGED <<fs, local>>
       ELSE /\ DeleteGoesOn(s, "empty")
            /\ fs' = LiveEmptied(fs, local[s].data_type, clock)
            /\ local' = [local EXCEPT ![s].done = Append(@, "empty")]
    /\ UNCHANGED <<clock, log, session_state, held, call, nops>>

\* lines 202-203 up to logging.info (line 65)
DeleteLog(s) ==
    /\ pc[s] = "log"
    /\ log' = log_file_after(log, DeleteLogCall(local[s].data_type, UserOf(s),
                                                local[s].backup_filename), clock)
    /\ pc' = [pc EXCEPT ![s] = StepAfter("log")]
    /\ local' = [local EXCEPT
                   ![s].done = Append(@, "log"),
                   ![s].logging = <<DeleteLogCall(local[s].data_type, UserOf(s),
                                                  local[s].backup_filename)>>,
                   ![s].returns =
                       [op |-> "delete", ok |-> TRUE,
                        message |-> "Data deleted successfully. Backup created: ",
                        backup_filename |-> local[s].backup_filename,
                        error |-> NoError],
                   ![s].keeps = held[s]]
    /\ UNCHANGED <<fs, clock, session_state, held, call, ret, nops>>

\* lines 68-77 of log_operation, then the return of the call that logs
SessionEntry(s) ==
    /\ pc[s] = "entry"
    /\ session_state' = [session_state EXCEPT ![s] = session_after(@, local[s].logging[1], clock)]
    /\ ret' = [ret EXCEPT ![s] = local[s].returns]
    /\ held' = [held EXCEPT ![s] = local[s].keeps]
    /\ pc' = [pc EXCEPT ![s] = StepAfter("entry")]
    /\ local' = [local EXCEPT ![s].done = Append(@, "entry"),
                              ![s].returns = Running,
                              ![s].keeps = NothingHeld]
    /\ UNCHANGED <<fs, clock, log, call, nops>>

\* a second passes
Tick ==
    /\ clock < MaxClock
    /\ clock' = clock + 1
    /\ UNCHANGED <<fs, log, session_state, held, call, ret, nops, pc, local>>

\* the manager starts on a directory that holds the same kind of file for
\* each type the callers work on
Init ==
    /\ \E kind \in InitialKinds : fs = Directory([t \in OpTypes |-> kind])
    /\ clock = 0
    /\ log = <<>>
    /\ session_state = [s \in Sessions |-> NoSessionLogs]
    /\ held = [s \in Sessions |-> NothingHeld]
    /\ call = [s \in Sessions |-> NoCall]
    /\ ret = [s \in Sessions |-> NoCall]
    /\ nops = 0
    /\ pc = [s \in Sessions |-> "idle"]
    /\ local = [s \in Sessions |-> NoLocal]

\* the sessions that call the manager
Actors == {Main}

Next ==
    \/ \E s \in Actors : \E t \in OpTypes : Load(s, t)
    \/ \E s \in Actors : \E t \in OpTypes : \E new_df \in Uploads[t] : Merge(s, t, new_df)
    \/ \E s \in Actors : \E t \in OpTypes : \E new_df \in Uploads[t] : Replace(s, t, new_df)
    \/ \E s \in Actors : \E t \in OpTypes : \E write_fails \in BOOLEAN : Save(s, t, write_fails)
    \/ \E s \in Actors : \E t \in OpTypes : DeleteBegin(s, t)
    \/ \E s \in Actors : DeleteRead(s)
    \/ \E s \in Actors : \E fails \in BOOLEAN : DeleteBackup(s, fails)
    \/ \E s \in Actors : \E fails \in BOOLEAN : DeleteEmpty(s, fails)
    \/ \E s \in Actors : DeleteLog(s)
    \/ \E s \in Actors : SessionEntry(s)
    \/ Tick

Spec == Init /\ [][Next]_vars

---------------------------------------------------------------------------
(* validate_uploaded_data on uploads that lack some columns of the schema *)

RECURSIVE SeqOf(_)
\* the elements of a set, in some order
SeqOf(S) == IF S = {} THEN <<>>
            ELSE LET x == CHOOSE x \in S : TRUE IN <<x>> \o SeqOf(S \ {x})

RECURSIVE AtMost(_, _)
\* the subsets of S of at most k elements
AtMost(S, k) ==
    IF k = 0 THEN {{}}
    ELSE AtMost(S, k - 1) \cup {M \cup {x} : M \in AtMost(S, k - 1), x \in S}

\* the column sets of the uploads of validate: the schema without at most
\* MaxMissing of its columns, with some foreign columns
ValidateColumns(t) ==
    IF t \in DOMAIN templates
    THEN {(Range(expected_columns_of(t)) \ M) \cup E :
             M \in AtMost(Range(expected_columns_of(t)), MaxMissing),
             E \in SUBSET {"Extra", "Notes"}}
    ELSE {{"Extra"}}

\* one row under the columns S
ValidateUpload(t, S) ==
    Frame(SeqOf(S), IF t \in DOMAIN templates THEN expected_columns_of(t) ELSE <<>>, <<0>>)

Pending(s, c) ==
    /\ call = [x \in Sessions |-> IF x = s THEN c ELSE NoCall]
    /\ ret = [x \in Sessions |-> IF x = s THEN [op |-> "pending"] ELSE NoCall]

\* no operation has run yet
Started ==
    /\ clock = 0
    /\ log = <<>>
    /\ session_state = [s \in Sessions |-> NoSessionLogs]
    /\ nops = 0
    /\ pc = [s \in Sessions |-> "idle"]
    /\ local = [s \in Sessions |-> NoLocal]

\* every type of OpTypes has its stored file
Quiet ==
    /\ fs = Directory([t \in OpTypes |-> "stored"])
    /\ Started

\* no data file is written yet
Fresh ==
    /\ fs = Directory([t \in OpTypes |-> "absent"])
    /\ Started

InitValidate ==
    /\ Fresh
    /\ held = [s \in Sessions |-> NothingHeld]
    /\ \E t \in DOMAIN templates \cup {"Unknown"} : \E S \in ValidateColumns(t) :
          Pending(Main, [op |-> "validate?", n |-> 0, data_type |-> t,
                         uploaded_df |-> ValidateUpload(t, S)])

Validate(s) ==
    /\ call[s].op = "validate?"
    /\ UNCHANGED nops
    /\ \E r \in {validate_uploaded_data(call[s].uploaded_df, call[s].data_type)} :
           Returned(s, [call[s] EXCEPT !.op = "validate"],
                       [op |-> "validate", ok |-> r.ok, message |-> r.message,
                        names |-> r.names, warning |-> r.warning])
    /\ UNCHANGED <<fs, clock, log, session_state, held, pc, local>>

NextValidate == Validate(Main)

SpecValidate == InitValidate /\ [][NextValidate]_vars

---------------------------------------------------------------------------
(* get_data_summary on every directory *)

InitSummary ==
    /\ \E kinds \in [DOMAIN data_files -> InitialKinds] : fs = Directory(kinds)
    /\ \E now \in 0..MaxClock : clock = now
    /\ log = <<>>
    /\ session_state = [s \in Sessions |-> NoSessionLogs]
    /\ held = [s \in Sessions |-> NothingHeld]
    /\ Pending(Main, [op |-> "summary?", n |-> 0])
    /\ nops = 0
    /\ pc = [s \in Sessions |-> "idle"]
    /\ local = [s \in Sessions |-> NoLocal]

SummaryCall == [op |-> "summary", n |-> 0]

Summary(s) ==
    /\ Idle(s)
    /\ call[s].op = "summary?"
    /\ Returned(s, SummaryCall,
                   [op |-> "summary", summary |-> get_data_summary(fs)])
    /\ UNCHANGED <<fs, clock, log, session_state, held, nops, pc, local>>

NextSummary == Summary(Main)

SpecSummary == InitSummary /\ [][NextSummary]_vars

---------------------------------------------------------------------------
(* merge_data and replace_data on small tables *)

\* the sequences of at most MergeMaxRows row kinds
RowKinds == UNION {[1..n -> 0..MaxRowId] : n \in 0..MergeMaxRows}

\* existing tables: of the schema's columns, with one column more, with one less
ExistingTables(t) ==
    {Frame(cols, expected_columns_of(t), ids) :
        cols \in {expected_columns_of(t),
                  Append(expected_columns_of(t), "Legacy"),
                  WithoutLast(expected_columns_of(t))},
        ids \in RowKinds}

\* new tables: of the schema's columns, reordered with one column more, with one less
NewTables(t) ==
    {Frame(cols, expected_columns_of(t), ids) :
        cols \in {expected_columns_of(t),
                  WithExtra(expected_columns_of(t)),
                  WithoutLast(expected_columns_of(t))},
        ids \in RowKinds}

\* the caller holds a table and is about to merge an upload into it, or
\* holds nothing and is about to replace; no file is written yet
\* the type whose tables are merged and replaced
MergeTypes == {"AI Mentor"}

InitMerge ==
    /\ Fresh
    /\ \E t \in MergeTypes : \E new_df \in NewTables(t) :
          \/ /\ \E existing_df \in ExistingTables(t) :
                   held = [s \in Sessions |->
                             IF s = Main THEN [df |-> existing_df, from |-> "load",
                                               data_type |-> t, ok |-> TRUE]
                             ELSE NothingHeld]
             /\ Pending(Main, [op |-> "merge?", n |-> 0, data_type |-> t, new_df |-> new_df])
          \/ /\ held = [s \in Sessions |-> NothingHeld]
             /\ Pending(Main, [op |-> "replace?", n |-> 0, data_type |-> t, new_df |-> new_df])

MergePending(s) ==
    /\ call[s].op = "merge?"
    /\ Merge(s, call[s].data_type, call[s].new_df)

ReplacePending(s) ==
    /\ call[s].op = "replace?"
    /\ Replace(s, call[s].data_type, call[s].new_df)

NextMerge ==
    \/ MergePending(Main)
    \/ ReplacePending(Main)
    \/ SessionEntry(Main)

SpecMerge == InitMerge /\ [][NextMerge]_vars

---------------------------------------------------------------------------
(* Two sessions that hold tables: delete_data against save_data *)

\* what the sessions hold to save: the first a replaced upload, the others
\* what they loaded
RaceTable(s, t) ==
    IF s = Main
    THEN [df |-> replace_data(Frame(WithExtra(expected_columns_of(t)), expected_columns_of(t),
                                    <<1, 2>>), t, UserOf(s)).df,
          from |-> "replace", data_type |-> t, ok |-> TRUE]
    ELSE [df |-> ReadCsv(StoredText(expected_columns_of(t), expected_columns_of(t))),
          from |-> "load", data_type |-> t, ok |-> TRUE]

InitRace ==
    /\ Quiet
    /\ call = [s \in Sessions |-> NoCall]
    /\ ret = [s \in Sessions |-> NoCall]
    /\ \E t \in OpTypes : held = [s \in Sessions |-> RaceTable(s, t)]

NextRace ==
    \/ \E s \in Sessions : Save(s, held[s].data_type, FALSE)
    \/ \E s \in Sessions : DeleteBegin(s, held[s].data_type)
    \/ \E s \in Sessions : DeleteRead(s)
    \/ \E s \in Sessions : \E fails \in BOOLEAN : DeleteBackup(s, fails)
    \/ \E s \in Sessions : DeleteEmpty(s, FALSE)
    \/ \E s \in Sessions : DeleteLog(s)
    \/ \E s \in Sessions : SessionEntry(s)
    \/ Tick

SpecRace == InitRace /\ [][NextRace]_vars

---------------------------------------------------------------------------
(* The audit trail: two sessions that merge, replace and delete, each the
   tables of one type *)

TypeOf(s) == IF s = Main THEN "AI Mentor" ELSE "Unit Performance"

InitAudit ==
    /\ Quiet
    /\ held = [s \in Sessions |-> NothingHeld]
    /\ call = [s \in Sessions |-> NoCall]
    /\ ret = [s \in Sessions |-> NoCall]

NextAudit ==
    \/ \E s \in Sessions : \E new_df \in Uploads[TypeOf(s)] : Merge(s, TypeOf(s), new_df)
    \/ \E s \in Sessions : \E new_df \in Uploads[TypeOf(s)] : Replace(s, TypeOf(s), new_df)
    \/ \E s \in Sessions : DeleteBegin(s, TypeOf(s))
    \/ \E s \in Sessions : DeleteRead(s)
    \/ \E s \in Sessions : DeleteBackup(s, FALSE)
    \/ \E s \in Sessions : DeleteEmpty(s, FALSE)
    \/ \E s \in Sessions : DeleteLog(s)
    \/ \E s \in Sessions : SessionEntry(s)
    \/ Tick

SpecAudit == InitAudit /\ [][NextAudit]_vars

---------------------------------------------------------------------------
(* Claims *)

\* the step is a counted call of op by session s
Called(s, op) == nops' = nops + 1 /\ call'[s].n = nops' /\ call'[s].op = op

\* the step is session s leaving the statement step of delete_data
Leaves(s, step) == pc[s] = step /\ pc'[s] # step

\* the step is session s going on from the statement step of delete_data
Passes(s, step) == Leaves(s, step) /\ local'[s].done = Append(local[s].done, step)

LiveFile(files, t) == FileAt(files, LivePath(data_files[t]))

SessionLogs(st) == IF st.has_logs THEN st.operation_logs ELSE <<>>

Last(seq) == seq[Len(seq)]

\* C1: when the backup write of delete fails on an existing backing file,
\* delete returns ok = false with the live file as it was, and no statement
\* of delete changes the live file before the backup has been written.
C1_BackupFailureKeepsLiveFile ==
    [][\A s \in Sessions :
         /\ (Leaves(s, "backup") /\ ~Passes(s, "backup"))
            => /\ ret'[s].op = "delete" /\ ret'[s].ok = FALSE
               /\ pc'[s] = "idle"
               /\ fs' = fs
         /\ (call[s].op = "delete" /\ \E step \in Range(DeleteOrder) : Leaves(s, step))
            => \/ LiveFile(fs', local[s].data_type) = LiveFile(fs, local[s].data_type)
               \/ "backup" \in Range(local[s].done)]_vars

\* a delete whose backup write failed, on a file that holds rows
C1_Witness ==
    \E s \in Sessions :
        /\ call[s].op = "delete"
        /\ ret[s].op = "delete" /\ ~ret[s].ok
        /\ ret[s].error = OSError(local[s].backup_filename)
        /\ local[s].done = <<"read">>
        /\ LiveFile(fs, call[s].data_type).exists
        /\ Len(LiveFile(fs, call[s].data_type).text.rows) = 2
        /\ LiveFile(fs, call[s].data_type).text = ToCsv(local[s].df)

\* the backup files of a directory
Backups(files) == DOMAIN files \cap BackupPaths

\* C2: a successful delete reads the N rows of the file, then writes exactly
\* one new backup file holding those rows, then leaves the live file with
\* the schema's header and no row, then appends one DELETE entry naming the
\* backup and returns ok = true.
C2_DeleteBacksUpThenEmpties ==
    [][\A s \in Sessions :
         LET t == local[s].data_type
             b == local[s].backup_filename
         IN  /\ Passes(s, "read")
                => /\ local[s].done = <<>>
                   /\ local'[s].df = ReadCsv(LiveFile(fs, t).text)
                   /\ fs' = fs
             /\ Passes(s, "backup")
                => /\ local[s].done = <<"read">>
                   /\ Backups(fs') \ Backups(fs) = {b}
                   /\ ReadCsv(fs'[b].text) = local[s].df
                   /\ LiveFile(fs', t) = LiveFile(fs, t)
             /\ Passes(s, "empty")
                => /\ local[s].done = <<"read", "backup">>
                   /\ LiveFile(fs', t).text.columns = expected_columns_of(t)
                   /\ LiveFile(fs', t).text.rows = <<>>
                   /\ Backups(fs') = Backups(fs)
             /\ Passes(s, "log")
                => /\ local[s].done = <<"read", "backup", "empty">>
                   /\ Len(log') = Len(log) + 1
                   /\ log'[Len(log')].operation = "DELETE"
                   /\ log'[Len(log')].details.backup = b
                   /\ fs' = fs
             /\ (Passes(s, "entry") /\ call[s].op = "delete")
                => /\ local[s].done = <<"read", "backup", "empty", "log">>
                   /\ Len(SessionLogs(session_state'[s]))
                        = Len(SessionLogs(session_state[s])) + 1
                   /\ Last(SessionLogs(session_state'[s])).operation = "DELETE"
                   /\ Last(SessionLogs(session_state'[s])).details.backup = b
                   /\ log' = log
                   /\ ret'[s].op = "delete" /\ ret'[s].ok
                   /\ fs' = fs
             /\ (ret'[s] # ret[s] /\ ret'[s].op = "delete" /\ ret'[s].ok)
                => Passes(s, "entry")]_vars

\* C3: a backup file, once written, keeps the text it was written with.
C3_BackupNeverOverwritten ==
    [][\A p \in Backups(fs) : p \in Backups(fs') /\ fs'[p].text = fs[p].text]_vars

\* C5: when the new table lacks a schema column, merge returns ok = false with
\* the existing table as it was, replace returns ok = false with an empty
\* table, and neither the audit log nor the session list gains an entry.
C5_SchemaMismatchReturnsAndLogsNothing ==
    [][\A s \in Sessions :
         (/\ Called(s, "merge") \/ Called(s, "replace")
          /\ RaisesKeyError(call'[s].new_df, expected_columns_of(call'[s].data_type)))
         => (/\ ret'[s].op = call'[s].op
             /\ ret'[s].ok = FALSE
             /\ Called(s, "merge") => ret'[s].df = held[s].df
             /\ Called(s, "replace") => ret'[s].df = EmptyFrame
             /\ pc'[s] = "idle"
             /\ log' = log
             /\ session_state' = session_state)]_vars

\* a merge of a table that lacks a column into a loaded table of two rows
C5_Witness ==
    \E s \in Sessions :
        /\ call[s].op = "merge"
        /\ RaisesKeyError(call[s].new_df, expected_columns_of(call[s].data_type))
        /\ Len(call[s].existing_df.rows) = 2
        /\ ret[s].ok = FALSE
        /\ ret[s].df = call[s].existing_df

\* C6: every backing file the manager writes has exactly the columns of its
\* type's schema; stated of the file written by a save of the table that a
\* successful merge or replace for that type returned.
C6_PersistedColumnsMatchSchema ==
    [][\A s \in Sessions :
         (/\ Called(s, "save")
          /\ ret'[s].ok
          /\ call'[s].from \in {"merge", "replace"}
          /\ call'[s].from_ok
          /\ call'[s].made_for = call'[s].data_type)
         => Range(LiveFile(fs', call'[s].data_type).text.columns)
              = Range(expected_columns_of(call'[s].data_type))]_vars

\* the step is session s returning ok = true from a call of op
ReturnsOk(s, op) == ret'[s] # ret[s] /\ ret'[s].op = op /\ ret'[s].ok

\* C9: the session list only grows at its end: it changes only when a
\* successful merge, replace or delete returns, and then by one entry of the
\* call's kind, type and user.
C9_SessionListAppendOnly ==
    [][\A s \in Sessions :
         LET before == SessionLogs(session_state[s])
             after  == SessionLogs(session_state'[s])
             Appended(kind) ==
                 /\ Len(after) = Len(before) + 1
                 /\ Last(after).operation = kind
                 /\ Last(after).data_type = call[s].data_type
                 /\ Last(after).user = call[s].user_info
         IN  /\ IsPrefix(before, after)
             /\ after # before
                => \E op \in {"merge", "replace", "delete"} : ReturnsOk(s, op)
             /\ ReturnsOk(s, "merge") => Appended("MERGE")
             /\ ReturnsOk(s, "replace") => Appended("REPLACE")
             /\ ReturnsOk(s, "delete") => Appended("DELETE")]_vars

\* a session has logged two successful calls, the second a delete
C9_Witness ==
    \E s \in Sessions :
        /\ Len(SessionLogs(session_state[s])) = 2
        /\ call[s].op = "delete"
        /\ ret[s].op = "delete" /\ ret[s].ok
        /\ SessionLogs(session_state[s])[2].operation = "DELETE"

\* C7: validate returns ok = true exactly when the upload has every schema
\* column; a failure names every missing column; columns outside the schema
\* do not change ok.
C7_ValidateNamesMissingColumns ==
    (ret[Main].op = "validate" /\ call[Main].data_type \in DOMAIN templates)
    => LET schema   == expected_columns_of(call[Main].data_type)
           uploaded == Range(call[Main].uploaded_df.columns)
           stripped == [columns |-> SeqOf(uploaded \cap Range(schema)), rows |-> <<>>]
       IN  /\ ret[Main].ok = (\A i \in 1..Len(schema) : schema[i] \in uploaded)
           /\ ~ret[Main].ok =>
                /\ ret[Main].message = "Missing columns: "
                /\ \A i \in 1..Len(schema) : schema[i] \notin uploaded => schema[i] \in ret[Main].names
           /\ ret[Main].ok = validate_uploaded_data(stripped, call[Main].data_type).ok

\* an upload with a foreign column that lacks two of the 25 schema columns
C7_Witness ==
    /\ ret[Main].op = "validate"
    /\ call[Main].data_type = "AI Tutor"
    /\ ret[Main].ok = FALSE
    /\ Cardinality(ret[Main].names) = 2
    /\ "Extra" \in Range(call[Main].uploaded_df.columns)

\* the directory that holds of files only the file of type t
OnlyFileOf(files, t) ==
    [p \in DOMAIN files \cap {LivePath(data_files[t])} |-> files[p]]

\* C8: the summary has one entry per registered type: "File not found" for a
\* missing file, an error entry for a file that cannot be read, and for
\* every type the entry it has when the files of the other types are absent.
C8_SummaryEntryPerType ==
    ret[Main].op = "summary"
    => /\ DOMAIN ret[Main].summary = DOMAIN data_files
       /\ \A t \in DOMAIN data_files :
            LET f == LiveFile(fs, t)
                entry == ret[Main].summary[t]
            IN  /\ ~f.exists => entry = FileNotFound
                /\ (f.exists /\ ReadCsvRaises(f.text)) => DOMAIN entry = {"error"}
                /\ (f.exists /\ ~ReadCsvRaises(f.text)) =>
                     /\ entry.records = Len(f.text.rows)
                     /\ entry.last_modified = f.mtime
                /\ entry = get_data_summary(OnlyFileOf(fs, t))[t]

\* the first type's file cannot be read, the last type's file has two rows,
\* another type has no file
C8_Witness ==
    /\ ret[Main].op = "summary"
    /\ DOMAIN ret[Main].summary["AI Tutor"] = {"error"}
    /\ ret[Main].summary["AI Impact"] = FileNotFound
    /\ DOMAIN ret[Main].summary["Unit Performance"] = {"records", "last_modified", "file_size"}
    /\ ret[Main].summary["Unit Performance"].records = 2

\* two frames of the same columns whose rows are equal cell by cell
SameFrame(a, b) ==
    /\ a.columns = b.columns
    /\ Len(a.rows) = Len(b.rows)
    /\ \A i \in 1..Len(a.rows) : SameRow(a.rows[i], b.rows[i])

\* existing followed by new projected on the schema, each row that equals an
\* earlier row removed
MergedAsClaimed(existing, new, schema) ==
    LET IsNew(c) == c \notin Range(existing.columns)
        cols  == existing.columns \o SelectSeq(schema, IsNew)
        n     == Len(existing.rows)
        cat   == [i \in 1..(n + Len(new.rows)) |->
                    [c \in Range(cols) |->
                        IF i <= n
                        THEN (IF c \in Range(existing.columns) THEN existing.rows[i][c] ELSE NaN)
                        ELSE (IF c \in Range(schema) THEN new.rows[i - n][c] ELSE NaN)]]
        first == {i \in DOMAIN cat : \A j \in 1..(i - 1) : ~SameRow(cat[j], cat[i])}
        nth(k) == CHOOSE i \in first : Cardinality({j \in first : j <= i}) = k
    IN  [columns |-> cols, rows |-> [k \in 1..Cardinality(first) |-> cat[nth(k)]]]

\* C4: merging a new table that has every schema column into a non-empty
\* existing table returns ok = true and the existing rows followed by the
\* projected new rows, the first of equal rows kept, in order.
C4_MergeConcatenatesAndKeepsFirst ==
    (/\ ret[Main].op = "merge"
     /\ Len(call[Main].existing_df.rows) > 0
     /\ ~RaisesKeyError(call[Main].new_df, expected_columns_of(call[Main].data_type)))
    => /\ ret[Main].ok
       /\ SameFrame(ret[Main].df,
                    MergedAsClaimed(call[Main].existing_df, call[Main].new_df,
                                    expected_columns_of(call[Main].data_type)))

\* two existing rows, two new rows under reordered columns, one of them equal
\* to an existing row
C4_Witness ==
    /\ ret[Main].op = "merge"
    /\ ret[Main].ok
    /\ Len(call[Main].existing_df.rows) = 2
    /\ Len(call[Main].new_df.rows) = 2
    /\ "Extra" \in Range(call[Main].new_df.columns)
    /\ Len(ret[Main].df.rows) = 3
    /\ call[Main].existing_df.rows[1] # call[Main].existing_df.rows[2]
    /\ ret[Main].df.rows[2] = call[Main].existing_df.rows[2]

\* session s saved rows of its own while session d was between the read and
\* the overwrite of a delete of the same type, and both calls returned ok
SavedDuring(s, d) ==
    /\ s # d
    /\ call[s].op = "save" /\ ret[s].ok
    /\ d \in call[s].during
    /\ call[d].op = "delete" /\ ret[d].op = "delete" /\ ret[d].ok
    /\ call[d].data_type = call[s].data_type
    /\ Len(call[s].df.rows) > 0
    /\ Range(call[s].df.rows) \cap Range(local[d].df.rows) = {}

\* the file holds a row of the frame
HoldsRowOf(file, frame) ==
    /\ file.exists
    /\ ~ReadCsvRaises(file.text)
    /\ Range(ReadCsv(file.text).rows) \cap Range(frame.rows) # {}

\* C10: a save that lands between delete's read and delete's overwrite is lost:
\* once both have returned ok, its rows are neither in the live file nor in
\* the backup that delete wrote.
C10_RacingSaveIsLost ==
    \A s \in Sessions : \A d \in Sessions :
        SavedDuring(s, d)
        => /\ ~HoldsRowOf(LiveFile(fs, call[s].data_type), call[s].df)
           /\ ~HoldsRowOf(FileAt(fs, local[d].backup_filename), call[s].df)

\* both calls returned ok and the saved rows are in no file at all
C10_Witness ==
    \E s \in Sessions : \E d \in Sessions :
        /\ SavedDuring(s, d)
        /\ \A p \in DOMAIN fs : ~HoldsRowOf(fs[p], call[s].df)

===========================================================================
